---- MODULE Spec2Model ----
(***************************************************************************)
(* A model of capture_network.py: the retry wrapper, the result            *)
(* normalizer, the record filter, the JSONL serializer and the capture     *)
(* run (connect -> navigate -> wait -> fetch -> filter -> persist ->       *)
(* disconnect) with its exit codes.                                        *)
(*                                                                         *)
(* Python values are modelled as tagged records:                           *)
(*   None  [t |-> "null"]            int   [t |-> "num",  n |-> 200]       *)
(*   str   [t |-> "str", s |-> <<..>>]   (a sequence of characters)        *)
(*   list  [t |-> "list", l |-> <<..>>]                                    *)
(*   dict  [t |-> "dict", items |-> <<[key |-> .., val |-> ..], ..>>]      *)
(* A str, and so a JSON text, is the sequence of its characters.           *)
(***************************************************************************)
EXTENDS Integers, Sequences, FiniteSets, TLC

VARIABLES
    pc,                 \* position of run_async / of the unit under test
    cli_args,           \* parsed configuration (wait mode, filters)
    exit_stack,         \* NetworkCaptureClient._exit_stack: entered contexts, oldest first
    conn,               \* state of each remote connection: "unopened" | "open" | "closed"
    closed,             \* history: the contexts the exit stack has exited, in order
    sessions,           \* playwright_session / filesystem_session handles held by the client
    exc,                \* exception in flight in run_async
    exit_code,          \* value returned by run_async (-1: not returned yet)
    stdout,             \* what print() has written
    tool_name,          \* call_tool_with_retry: tool_name
    tool_args,          \* call_tool_with_retry: tool_args
    retries,            \* call_tool_with_retry: retries
    backoff_seconds,    \* call_tool_with_retry: backoff_seconds, in hundredths of a second
    attempt_index,      \* call_tool_with_retry: attempt_index
    last_exception,     \* call_tool_with_retry: last_exception
    rt_pc,              \* call_tool_with_retry: "idle" | "call" | "sleep" | "returned" | "raised"
    rt_out,             \* call_tool_with_retry: the CallToolResult returned or the error raised
    calls,              \* history: every remote call_tool invocation, in order
    sleeps,             \* history: every asyncio.sleep, in order
    warnings,           \* history: every LOGGER.warning, in order
    call_result,        \* the CallToolResult handed to extract_tool_result_json
    network_payload,    \* capture_network_requests: network_payload
    captured_requests,  \* run_async: captured_requests (filter input)
    filtered_requests,  \* run_async: filtered_requests (filter output / persist input)
    jsonl_blob,         \* save_jsonl: jsonl_blob, the text handed to write_file
    expanded_output_path, \* save_jsonl: expanded_output_path
    clock,              \* the wall clock: the index of the current second
    fs_content          \* storage service: content of the output file

vars == <<pc, cli_args, clock, exit_stack, conn, closed, sessions, exc, exit_code, stdout,
          tool_name, tool_args, retries, backoff_seconds, attempt_index, last_exception,
          rt_pc, rt_out, calls, sleeps, warnings, call_result, network_payload,
          captured_requests, filtered_requests, jsonl_blob, expanded_output_path,
          fs_content>>

-----------------------------------------------------------------------------
(* Python values *)

None == [t |-> "null"]
Num(n) == [t |-> "num", n |-> n]
Str(s) == [t |-> "str", s |-> s]
List(l) == [t |-> "list", l |-> l]
Dict(items) == [t |-> "dict", items |-> items]
KV(k, v) == [key |-> k, val |-> v]

Range(f) == {f[i] : i \in DOMAIN f}
Reverse(s) == [i \in 1..Len(s) |-> s[Len(s) + 1 - i]]

\* bool(v): Python truthiness
PyTruthy(v) ==
    CASE v.t = "null" -> FALSE
      [] v.t = "num"  -> v.n # 0
      [] v.t = "str"  -> Len(v.s) > 0
      [] v.t = "list" -> Len(v.l) > 0
      [] v.t = "dict" -> Len(v.items) > 0

\* a or b
PyOr(a, b) == IF PyTruthy(a) THEN a ELSE b

\* key in d
PyHas(d, k) == \E i \in DOMAIN d.items : d.items[i].key = k

\* d.get(k): the value stored under k, None when the key is absent
PyGet(d, k) ==
    IF PyHas(d, k)
    THEN d.items[CHOOSE i \in DOMAIN d.items : d.items[i].key = k].val
    ELSE None

\* str.upper(), one character
UpperChar(c) ==
    CASE c = "g" -> "G"
      [] c = "e" -> "E"
      [] c = "t" -> "T"
      [] c = "p" -> "P"
      [] c = "o" -> "O"
      [] c = "s" -> "S"
      [] OTHER   -> c

\* str.upper()
PyUpper(s) == [i \in DOMAIN s |-> UpperChar(s[i])]

IsDigit(c) == c \in {"0", "1", "2", "3", "4", "5", "6", "7", "8", "9"}

DigitVal(c) ==
    CASE c = "0" -> 0 [] c = "1" -> 1 [] c = "2" -> 2 [] c = "3" -> 3
      [] c = "4" -> 4 [] c = "5" -> 5 [] c = "6" -> 6 [] c = "7" -> 7
      [] c = "8" -> 8 [] c = "9" -> 9

RECURSIVE DigitsVal(_)
DigitsVal(s) ==
    IF Len(s) = 0 THEN 0
    ELSE 10 * DigitsVal(SubSeq(s, 1, Len(s) - 1)) + DigitVal(s[Len(s)])

\* int(v): [ok |-> TRUE, n |-> value], or ok = FALSE where int() raises
\* TypeError (list, dict, None) or ValueError (a str that is not a decimal)
PyInt(v) ==
    CASE v.t = "num" -> [ok |-> TRUE, n |-> v.n]
      [] v.t = "str" ->
            IF Len(v.s) > 0 /\ \A i \in DOMAIN v.s : IsDigit(v.s[i])
            THEN [ok |-> TRUE, n |-> DigitsVal(v.s)]
            ELSE [ok |-> FALSE, n |-> 0]
      [] OTHER -> [ok |-> FALSE, n |-> 0]

\* re.compile(pattern) raises re.error: an unbalanced parenthesis
RegexInvalid(pattern) == \E i \in DOMAIN pattern : pattern[i] = "("

\* re.compile(pattern).search(text) for a pattern of literal characters:
\* the pattern occurs somewhere in the text (a search, not a full match)
RegexSearch(pattern, text) ==
    \E i \in 1..(Len(text) - Len(pattern) + 1) :
        SubSeq(text, i, i + Len(pattern) - 1) = pattern

-----------------------------------------------------------------------------
(* JSON texts: a text is the sequence of its characters *)

QUOTE == "\""
BACKSLASH == "\\"
NEWLINE == "\n"

DigitChars == <<"0", "1", "2", "3", "4", "5", "6", "7", "8", "9">>

RECURSIVE NatToStr(_)
NatToStr(n) ==
    IF n < 10 THEN <<DigitChars[n + 1]>>
    ELSE NatToStr(n \div 10) \o <<DigitChars[(n % 10) + 1]>>

\* str(n) of an int
IntToStr(n) == IF n < 0 THEN <<"-">> \o NatToStr(-n) ELSE NatToStr(n)

\* the body of a JSON string literal: quote, backslash and newline are escaped
EscapeChar(c) ==
    CASE c = QUOTE     -> <<BACKSLASH, QUOTE>>
      [] c = BACKSLASH -> <<BACKSLASH, BACKSLASH>>
      [] c = NEWLINE   -> <<BACKSLASH, "n">>
      [] OTHER         -> <<c>>

RECURSIVE EscapeStr(_)
EscapeStr(s) == IF Len(s) = 0 THEN <<>> ELSE EscapeChar(Head(s)) \o EscapeStr(Tail(s))

StrLit(s) == <<QUOTE>> \o EscapeStr(s) \o <<QUOTE>>

RECURSIVE json_dumps(_), DumpElems(_), DumpItems(_)
\* json.dumps(v, ensure_ascii=False), with the default separators ", " and ": "
json_dumps(v) ==
    CASE v.t = "null" -> <<"n", "u", "l", "l">>
      [] v.t = "num"  -> IntToStr(v.n)
      [] v.t = "str"  -> StrLit(v.s)
      [] v.t = "list" -> <<"[">> \o DumpElems(v.l) \o <<"]">>
      [] v.t = "dict" -> <<"{">> \o DumpItems(v.items) \o <<"}">>

DumpElems(l) ==
    IF Len(l) = 0 THEN <<>>
    ELSE IF Len(l) = 1 THEN json_dumps(l[1])
    ELSE json_dumps(l[1]) \o <<",", " ">> \o DumpElems(Tail(l))

DumpItems(items) ==
    IF Len(items) = 0 THEN <<>>
    ELSE LET one == StrLit(items[1].key) \o <<":", " ">> \o json_dumps(items[1].val)
         IN  IF Len(items) = 1 THEN one
             ELSE one \o <<",", " ">> \o DumpItems(Tail(items))

\* d[k] = v on the items of a dict: replaces the value of an existing key
DictSet(items, k, v) ==
    IF \E i \in DOMAIN items : items[i].key = k
    THEN [i \in DOMAIN items |-> IF items[i].key = k THEN KV(k, v) ELSE items[i]]
    ELSE Append(items, KV(k, v))

ParseFail == [ok |-> FALSE, v |-> None, next |-> 0]
ParseOk(v, next) == [ok |-> TRUE, v |-> v, next |-> next]
IsC(text, i, c) == i <= Len(text) /\ text[i] = c

RECURSIVE SkipWs(_, _)
\* the index of the first character at or after i that is not whitespace
SkipWs(text, i) ==
    IF i <= Len(text) /\ text[i] \in {" ", NEWLINE} THEN SkipWs(text, i + 1) ELSE i

RECURSIVE ParseString(_, _, _)
\* the string literal whose body starts at i (after the opening quote)
ParseString(text, i, acc) ==
    IF i > Len(text) THEN ParseFail
    ELSE IF text[i] = QUOTE THEN ParseOk(Str(acc), i + 1)
    ELSE IF text[i] = NEWLINE THEN ParseFail
    ELSE IF text[i] = BACKSLASH
         THEN IF IsC(text, i + 1, QUOTE) THEN ParseString(text, i + 2, Append(acc, QUOTE))
              ELSE IF IsC(text, i + 1, BACKSLASH)
                   THEN ParseString(text, i + 2, Append(acc, BACKSLASH))
              ELSE IF IsC(text, i + 1, "n")
                   THEN ParseString(text, i + 2, Append(acc, NEWLINE))
              ELSE ParseFail
    ELSE ParseString(text, i + 1, Append(acc, text[i]))

RECURSIVE DigitsEnd(_, _)
\* the index after the run of digits that starts at i
DigitsEnd(text, i) ==
    IF i <= Len(text) /\ IsDigit(text[i]) THEN DigitsEnd(text, i + 1) ELSE i

\* an integer literal at i: an optional minus, then 0 or digits without a leading 0
ParseNumber(text, i) ==
    LET neg == IsC(text, i, "-")
        from == IF neg THEN i + 1 ELSE i
        to == DigitsEnd(text, from)
        n == DigitsVal(SubSeq(text, from, to - 1))
    IN  IF to = from \/ (to > from + 1 /\ text[from] = "0") THEN ParseFail
        ELSE ParseOk(Num(IF neg THEN -n ELSE n), to)

RECURSIVE ParseValue(_, _), ParseElems(_, _, _), ParseMembers(_, _, _)
\* the JSON value that starts at or after i, and the index after it
ParseValue(text, i0) ==
    LET i == SkipWs(text, i0) IN
    IF i > Len(text) THEN ParseFail
    ELSE CASE text[i] = QUOTE -> ParseString(text, i + 1, <<>>)
           [] text[i] = "-" \/ IsDigit(text[i]) -> ParseNumber(text, i)
           [] text[i] = "n" ->
                 IF i + 3 <= Len(text) /\ SubSeq(text, i, i + 3) = <<"n", "u", "l", "l">>
                 THEN ParseOk(None, i + 4) ELSE ParseFail
           [] text[i] = "[" ->
                 IF IsC(text, SkipWs(text, i + 1), "]")
                 THEN ParseOk(List(<<>>), SkipWs(text, i + 1) + 1)
                 ELSE ParseElems(text, i + 1, <<>>)
           [] text[i] = "{" ->
                 IF IsC(text, SkipWs(text, i + 1), "}")
                 THEN ParseOk(Dict(<<>>), SkipWs(text, i + 1) + 1)
                 ELSE ParseMembers(text, i + 1, <<>>)
           [] OTHER -> ParseFail

ParseElems(text, i, acc) ==
    LET r == ParseValue(text, i)
        j == SkipWs(text, r.next)
    IN  IF ~r.ok THEN ParseFail
        ELSE IF IsC(text, j, ",") THEN ParseElems(text, j + 1, Append(acc, r.v))
        ELSE IF IsC(text, j, "]") THEN ParseOk(List(Append(acc, r.v)), j + 1)
        ELSE ParseFail

ParseMembers(text, i0, acc) ==
    LET i == SkipWs(text, i0)
        k == IF IsC(text, i, QUOTE) THEN ParseString(text, i + 1, <<>>) ELSE ParseFail
        c == SkipWs(text, k.next)
        r == ParseValue(text, c + 1)
        j == SkipWs(text, r.next)
    IN  IF ~k.ok \/ ~IsC(text, c, ":") THEN ParseFail
        ELSE IF ~r.ok THEN ParseFail
        ELSE IF IsC(text, j, ",")
             THEN ParseMembers(text, j + 1, DictSet(acc, k.v.s, r.v))
        ELSE IF IsC(text, j, "}")
             THEN ParseOk(Dict(DictSet(acc, k.v.s, r.v)), j + 1)
        ELSE ParseFail

\* json.loads(text): [ok |-> TRUE, v |-> value], or ok = FALSE where it raises
\* (empty text, malformed text, or data after the first value)
json_loads(text) ==
    LET r == ParseValue(text, 1) IN
    IF r.ok /\ SkipWs(text, r.next) = Len(text) + 1 THEN [ok |-> TRUE, v |-> r.v]
    ELSE [ok |-> FALSE, v |-> None]

K_value == <<"v", "a", "l", "u", "e">>

\* mutant: the lines are joined by newlines, the last one left unterminated
serialize_to_jsonl_joined(payload) ==
    CASE payload.t = "null" -> <<>>
      [] payload.t = "dict" -> json_dumps(payload) \o <<NEWLINE>>
      [] payload.t = "list" ->
            LET F[i \in 0..Len(payload.l)] ==
                    IF i = 0 THEN <<>>
                    ELSE IF i = 1 THEN json_dumps(payload.l[i])
                    ELSE F[i - 1] \o <<NEWLINE>> \o json_dumps(payload.l[i])
            IN  F[Len(payload.l)]
      [] OTHER -> json_dumps(Dict(<<KV(K_value, payload)>>)) \o <<NEWLINE>>

\* serialize_to_jsonl(payload)
serialize_to_jsonl(payload) ==
    CASE payload.t = "null" -> <<>>
      [] payload.t = "dict" -> json_dumps(payload) \o <<NEWLINE>>
      [] payload.t = "list" ->
            LET F[i \in 0..Len(payload.l)] ==
                    IF i = 0 THEN <<>>
                    ELSE F[i - 1] \o json_dumps(payload.l[i]) \o <<NEWLINE>>
            IN  F[Len(payload.l)]
      [] OTHER -> json_dumps(Dict(<<KV(K_value, payload)>>)) \o <<NEWLINE>>

-----------------------------------------------------------------------------
(* Exceptions *)

NoExc == [type |-> "none"]
\* the error raised by the n-th invocation of a tool
ToolError(tool, n) == [type |-> "ToolError", tool |-> tool, n |-> n]
\* RuntimeError(...) from cause
RuntimeError(tool, cause) == [type |-> "RuntimeError", tool |-> tool, cause |-> cause]
Error(type) == [type |-> type]
KeyboardInterrupt == [type |-> "KeyboardInterrupt"]
\* the error a context raises while the exit stack exits it; its __context__ is
\* the exception that was in flight
CloseError(context) == [type |-> "CloseError", context |-> context]

Returned(v) == [raised |-> FALSE, value |-> v, exc |-> NoExc]
Raised(e) == [raised |-> TRUE, value |-> None, exc |-> e]

-----------------------------------------------------------------------------
(* Result Normalizer *)

K_text == <<"t", "e", "x", "t">>
K_requests == <<"r", "e", "q", "u", "e", "s", "t", "s">>
K_request == <<"r", "e", "q", "u", "e", "s", "t">>
K_response == <<"r", "e", "s", "p", "o", "n", "s", "e">>
K_url == <<"u", "r", "l">>
K_method == <<"m", "e", "t", "h", "o", "d">>
K_status == <<"s", "t", "a", "t", "u", "s">>

\* A content entry: its `type`, whether it carries the payload its type names
\* (the `json` / `text` attribute or key, not None), and the payload.
JsonEntry(v) == [type |-> "json", has |-> TRUE, json |-> v, text |-> <<>>]
TextEntry(text) == [type |-> "text", has |-> TRUE, json |-> None, text |-> text]
BareEntry(type) == [type |-> type, has |-> FALSE, json |-> None, text |-> <<>>]
\* A CallToolResult: content is None, or a list of content entries
ToolResult(content) == [content_none |-> FALSE, content |-> content]
NoContentResult == [content_none |-> TRUE, content |-> <<>>]

\* mutant: text that is not JSON yields None instead of {"text": ...}
TextEntryValue_no_fallback(entry) ==
    IF entry.has /\ json_loads(entry.text).ok THEN json_loads(entry.text).v ELSE None

\* the value extract_tool_result_json returns at a "text" entry
TextEntryValue(entry) ==
    LET text_payload == IF entry.has THEN entry.text ELSE <<>>
        parsed == json_loads(text_payload)
    IN  IF parsed.ok THEN parsed.v
        ELSE Dict(<<KV(K_text, Str(text_payload))>>)

\* the value extract_tool_result_json returns at a "json" entry
JsonEntryValue(entry) == IF entry.has THEN entry.json ELSE None

RECURSIVE ScanContent(_, _)
\* the for loop of extract_tool_result_json, from entry i on
ScanContent(content, i) ==
    IF i > Len(content) THEN None
    ELSE IF content[i].type = "json" THEN JsonEntryValue(content[i])
    ELSE IF content[i].type = "text" THEN TextEntryValue(content[i])
    ELSE ScanContent(content, i + 1)

\* extract_tool_result_json(result)
extract_tool_result_json(result) ==
    IF result.content_none THEN None ELSE ScanContent(result.content, 1)

\* mutant: a mapping is always wrapped, also when it holds a `requests` list
NormalizeToList_wraps(payload) ==
    IF payload = None THEN <<>>
    ELSE IF payload.t = "list" THEN payload.l
    ELSE IF payload.t = "dict" THEN <<payload>>
    ELSE <<Dict(<<KV(K_value, payload)>>)>>

\* capture_network_requests: "Normalize to list for downstream processing"
NormalizeToList(payload) ==
    IF payload = None THEN <<>>
    ELSE IF payload.t = "list" THEN payload.l
    ELSE IF payload.t = "dict"
         THEN IF PyHas(payload, K_requests) /\ PyGet(payload, K_requests).t = "list"
              THEN PyGet(payload, K_requests).l
              ELSE <<payload>>
    ELSE <<Dict(<<KV(K_value, payload)>>)>>

-----------------------------------------------------------------------------
(* Record Filter *)

\* (request_record.get(k) or {})
SubMapping(request_record, k) == PyOr(PyGet(request_record, k), Dict(<<>>))

url_value(request_record) ==
    PyOr(PyOr(PyGet(SubMapping(request_record, K_request), K_url),
              PyGet(request_record, K_url)),
         Str(<<>>))

\* mutant: the flat field is looked up before the nested one
method_value_flat_first(request_record) ==
    PyOr(PyGet(request_record, K_method),
         PyGet(SubMapping(request_record, K_request), K_method))

method_value(request_record) ==
    PyOr(PyGet(SubMapping(request_record, K_request), K_method),
         PyGet(request_record, K_method))

status_value(request_record) ==
    PyOr(PyGet(SubMapping(request_record, K_response), K_status),
         PyGet(request_record, K_status))

\* str(v), for the values a method can hold here (str(list), str(dict) are not modelled)
PyStr(v) ==
    CASE v.t = "str" -> v.s
      [] v.t = "num" -> IntToStr(v.n)

\* The loop body raises: `.get` on something that is no mapping
\* (AttributeError), or `search` on a URL that is no string (TypeError).
RecordRaises(request_record, url_regex) ==
    \/ request_record.t # "dict"
    \/ SubMapping(request_record, K_request).t # "dict"
    \/ SubMapping(request_record, K_response).t # "dict"
    \/ PyTruthy(url_regex) /\ url_value(request_record).t # "str"

\* int(status_value) < status_min, False where int() raises (the except: pass)
BelowMin(status, status_min) ==
    status_min # None /\ status # None /\ PyInt(status).ok /\ PyInt(status).n < status_min.n

\* int(status_value) > status_max, False where int() raises (the except: pass)
AboveMax(status, status_max) ==
    status_max # None /\ status # None /\ PyInt(status).ok /\ PyInt(status).n > status_max.n

\* mutant: a record without a method is dropped even when no method filter is given
KeepRecord_needs_method(request_record, url_regex, method_filter, status_min, status_max) ==
    /\ ~(PyTruthy(url_regex) /\ ~RegexSearch(url_regex.s, url_value(request_record).s))
    /\ PyTruthy(method_value(request_record))
    /\ ~(PyTruthy(method_filter)
         /\ PyUpper(PyStr(method_value(request_record))) # PyUpper(method_filter.s))
    /\ ~BelowMin(status_value(request_record), status_min)
    /\ ~AboveMax(status_value(request_record), status_max)

\* the loop body reaches filtered_records.append(request_record)
KeepRecord(request_record, url_regex, method_filter, status_min, status_max) ==
    /\ ~(PyTruthy(url_regex) /\ ~RegexSearch(url_regex.s, url_value(request_record).s))
    /\ ~(PyTruthy(method_filter)
         /\ (\/ ~PyTruthy(method_value(request_record))
             \/ PyUpper(PyStr(method_value(request_record))) # PyUpper(method_filter.s)))
    /\ ~BelowMin(status_value(request_record), status_min)
    /\ ~AboveMax(status_value(request_record), status_max)

\* mutant: kept records are inserted at the front of filtered_records
filter_network_requests_prepend(request_records, url_regex, method_filter, status_min, status_max) ==
    IF PyTruthy(url_regex) /\ RegexInvalid(url_regex.s) THEN Raised(Error("re.error"))
    ELSE IF \E i \in DOMAIN request_records : RecordRaises(request_records[i], url_regex)
         THEN Raised(Error("AttributeError"))
    ELSE Returned(Reverse(SelectSeq(request_records,
                                    LAMBDA r : KeepRecord(r, url_regex, method_filter,
                                                          status_min, status_max))))

\* filter_network_requests(request_records, url_regex, method_filter, status_min, status_max)
filter_network_requests(request_records, url_regex, method_filter, status_min, status_max) ==
    IF PyTruthy(url_regex) /\ RegexInvalid(url_regex.s) THEN Raised(Error("re.error"))
    ELSE IF \E i \in DOMAIN request_records : RecordRaises(request_records[i], url_regex)
         THEN Raised(Error("AttributeError"))
    ELSE Returned(SelectSeq(request_records,
                            LAMBDA r : KeepRecord(r, url_regex, method_filter,
                                                  status_min, status_max)))

-----------------------------------------------------------------------------
(* The remote services *)

S_GET == <<"G", "E", "T">>
S_get == <<"g", "e", "t">>
S_POST == <<"P", "O", "S", "T">>
U_api_a == <<"a", "p", "i", "/", "a">>
U_web_b == <<"w", "e", "b", "/", "b">>
U_api_c == <<"a", "p", "i", "/", "c">>

\* a record with nested `request` and `response` sub-mappings
NestedRecord(url, method, status) ==
    Dict(<<KV(K_request, Dict(<<KV(K_url, Str(url)), KV(K_method, Str(method))>>)),
           KV(K_response, Dict(<<KV(K_status, status)>>))>>)

\* a record with flattened top-level fields
FlatRecord(url, method, status) ==
    Dict(<<KV(K_url, Str(url)), KV(K_method, Str(method)), KV(K_status, status)>>)

RecA == NestedRecord(U_api_a, S_GET, Num(200))
RecB == NestedRecord(U_web_b, S_POST, Num(500))
RecC == FlatRecord(U_api_c, S_get, Num(404))

\* What browser_network_requests may answer: a list of records, a mapping
\* holding a `requests` list, or an opaque payload.
BrowserResponses ==
    { ToolResult(<<TextEntry(json_dumps(List(<<RecA, RecB>>)))>>),
      ToolResult(<<BareEntry("image"),
                   TextEntry(json_dumps(Dict(<<KV(K_requests, List(<<RecC, RecA>>))>>)))>>),
      ToolResult(<<JsonEntry(RecC)>>),
      ToolResult(<<TextEntry(json_dumps(Dict(<<KV(K_requests, Num(5))>>)))>>),
      ToolResult(<<TextEntry(<<"4", "0", "4">>)>>),
      ToolResult(<<>>),
      ToolResult(<<TextEntry(<<"[", "{">>)>>),
      ToolResult(<<JsonEntry(List(<<Num(1), RecA>>))>>) }

\* the empty acknowledgement the other tools return
Ack == ToolResult(<<>>)

\* the results a successful invocation of a tool may return
ResultsOf(tool) == IF tool = "browser_network_requests" THEN BrowserResponses ELSE {Ack}

-----------------------------------------------------------------------------
(* Retry Wrapper: call_tool_with_retry *)

DefaultRetries == 2
DefaultBackoff == 75            \* backoff_seconds = 0.75, in hundredths of a second
MaxRetries == 3                 \* largest `retries` the wrapper is exercised with

RECURSIVE Pow2(_)
Pow2(n) == IF n <= 0 THEN 1 ELSE 2 * Pow2(n - 1)

\* mutant: the exponent is the attempt number
sleep_seconds_doubled(backoff, attempt) ==
    backoff * Pow2(attempt)

\* sleep_seconds = backoff_seconds * (2 ** (attempt_index - 1))
sleep_seconds(backoff, attempt) ==
    backoff * Pow2(attempt - 1)

\* raise RuntimeError(...) from last_exception
terminal_error(tool, last) == RuntimeError(tool, last)

\* mutant: the loop gives up one attempt early
attempts_exhausted_early(attempt, r) == attempt >= r

\* the loop exits to the raise: attempt_index > retries
attempts_exhausted(attempt, r) == attempt > r

NoFile == [exists |-> FALSE, path |-> <<>>, content |-> <<>>]
NoArgs == [empty |-> TRUE]       \* tool_args = {}

\* what a successful invocation of the tool leaves in the storage service
fs_after(tool, args, fs) ==
    IF tool = "write_file"
    THEN [exists |-> TRUE, path |-> args.path, content |-> args.content]
    ELSE fs

\* entry of call_tool_with_retry: attempt_index = 0, last_exception = None,
\* then the first test of `while attempt_index <= retries`
BeginCall(tool, args, r, backoff) ==
    /\ tool_name' = tool
    /\ tool_args' = args
    /\ retries' = r
    /\ backoff_seconds' = backoff
    /\ attempt_index' = 0
    /\ last_exception' = NoExc
    /\ rt_pc' = IF 0 <= r THEN "call" ELSE "raised"
    /\ rt_out' = IF 0 <= r THEN None ELSE terminal_error(tool, NoExc)

run_vars == <<pc, cli_args, clock, exit_stack, conn, closed, sessions, exc, exit_code, stdout,
              call_result, network_payload, captured_requests, filtered_requests,
              jsonl_blob, expanded_output_path>>

\* mutant: the result is kept but the loop is not left
InvokeOk_no_return ==
    /\ rt_pc = "call"
    /\ \E result \in ResultsOf(tool_name) :
          /\ rt_out' = result
          /\ rt_pc' = "call"
          /\ calls' = Append(calls, [tool |-> tool_name, args |-> tool_args, ok |-> TRUE,
                                     result |-> result])
    /\ fs_content' = fs_after(tool_name, tool_args, fs_content)
    /\ UNCHANGED <<tool_name, tool_args, retries, backoff_seconds, attempt_index,
                   last_exception, sleeps, warnings>>
    /\ UNCHANGED run_vars

\* `return await client_session.call_tool(tool_name, tool_args or {})` returns
InvokeOk ==
    /\ rt_pc = "call"
    /\ \E result \in ResultsOf(tool_name) :
          /\ rt_out' = result
          /\ rt_pc' = "returned"
          /\ calls' = Append(calls, [tool |-> tool_name, args |-> tool_args, ok |-> TRUE,
                                     result |-> result])
    /\ fs_content' = fs_after(tool_name, tool_args, fs_content)
    /\ UNCHANGED <<tool_name, tool_args, retries, backoff_seconds, attempt_index,
                   last_exception, sleeps, warnings>>
    /\ UNCHANGED run_vars

\* LOGGER.warning("Tool %s failed (attempt %d/%d): ... retrying in %.2fs", ...)
RetryWarning(tool, attempt, r, seconds) ==
    [about |-> "retry", tool |-> tool, attempt |-> attempt, retries |-> r,
     seconds |-> seconds]

\* the other warnings: a listing that raised, a create_directory that failed
Warning(about, tool) == [about |-> about, tool |-> tool]

\* call_tool raises: the except branch, up to the sleep or the final raise
InvokeFail ==
    /\ rt_pc = "call"
    /\ LET e == ToolError(tool_name, attempt_index + 1) IN
          /\ last_exception' = e
          /\ attempt_index' = attempt_index + 1
          /\ IF attempts_exhausted(attempt_index + 1, retries)
             THEN /\ rt_pc' = "raised"
                  /\ rt_out' = terminal_error(tool_name, e)
                  /\ sleeps' = sleeps
                  /\ warnings' = warnings
             ELSE /\ rt_pc' = "sleep"
                  /\ rt_out' = rt_out
                  /\ warnings' = Append(warnings,
                         RetryWarning(tool_name, attempt_index + 1, retries,
                                      sleep_seconds(backoff_seconds, attempt_index + 1)))
                  /\ sleeps' = Append(sleeps,
                         [why |-> "backoff",
                          seconds |-> sleep_seconds(backoff_seconds, attempt_index + 1)])
    /\ calls' = Append(calls, [tool |-> tool_name, args |-> tool_args, ok |-> FALSE])
    /\ UNCHANGED <<tool_name, tool_args, retries, backoff_seconds, fs_content>>
    /\ UNCHANGED run_vars

\* asyncio.sleep(sleep_seconds) returns: back to the top of the while loop
SleepDone ==
    /\ rt_pc = "sleep"
    /\ rt_pc' = "call"
    /\ UNCHANGED <<tool_name, tool_args, retries, backoff_seconds, attempt_index,
                   last_exception, rt_out, calls, sleeps, warnings, fs_content>>
    /\ UNCHANGED run_vars

-----------------------------------------------------------------------------
(* Capture Session and CLI Driver: NetworkCaptureClient and run_async *)

StatusMinDefault == 0
StatusMaxDefault == 999
WaitSeconds == 500              \* --wait default 5 seconds, in hundredths of a second

U_target == <<"w", "e", "b">>
P_api == <<"a", "p", "i">>
P_bad == <<"(">>

\* --out: the path template, a directory and a file name, each a sequence of pieces
OutTemplate ==
    [dir |-> <<"~", "/captures/", "{ts}">>, file |-> <<"capture_", "{ts}", ".jsonl">>]
\* timestamp_yyyymmdd_hhmmss() at the time of the run
Timestamp == "20250101_000000"
HomeDir == "/home/user"

MaxTicks == 2                   \* most seconds the clock advances during persist

\* what strftime("%Y%m%d_%H%M%S") gives, second after second
Timestamps ==
    <<Timestamp, "20250101_000001", "20250101_000002", "20250101_000003", "20250101_000004">>

\* timestamp_yyyymmdd_hhmmss() when the clock shows `now`
timestamp_yyyymmdd_hhmmss(now) == Timestamps[now]

\* path_template.replace("{ts}", ts)
replace_ts(pieces, ts) ==
    [i \in DOMAIN pieces |-> IF pieces[i] = "{ts}" THEN ts ELSE pieces[i]]

NoPath == [dir |-> <<>>, file |-> <<>>]

\* os.path.expanduser(path): a leading "~" becomes the home directory
expanduser(pieces) ==
    [i \in DOMAIN pieces |-> IF i = 1 /\ pieces[i] = "~" THEN HomeDir ELSE pieces[i]]

\* expand_output_path_template(path_template), called when the clock shows `now`
expand_output_path_template(path_template, now) ==
    LET ts == timestamp_yyyymmdd_hhmmss(now) IN
    [dir |-> expanduser(replace_ts(path_template.dir, ts)),
     file |-> replace_ts(path_template.file, ts)]

\* os.path.dirname(path)
dirname(path) == path.dir

\* the filter part of the configurations the run is started with
FilterArgs ==
    { [filter_url |-> None, filter_method |-> None,
       status_min |-> Num(StatusMinDefault), status_max |-> Num(StatusMaxDefault)],
      [filter_url |-> None, filter_method |-> Str(S_get),
       status_min |-> Num(StatusMinDefault), status_max |-> Num(StatusMaxDefault)],
      [filter_url |-> None, filter_method |-> None,
       status_min |-> Num(200), status_max |-> Num(399)],
      [filter_url |-> Str(P_api), filter_method |-> None,
       status_min |-> Num(StatusMinDefault), status_max |-> Num(StatusMaxDefault)],
      [filter_url |-> Str(P_bad), filter_method |-> None,
       status_min |-> Num(StatusMinDefault), status_max |-> Num(StatusMaxDefault)] }

\* the capture run is not in progress
RunIdle(at) ==
    /\ pc = at
    /\ exit_stack = <<>>
    /\ conn = [c \in {"playwright", "filesystem"} |-> "unopened"]
    /\ closed = <<>>
    /\ sessions = {}
    /\ exc = NoExc
    /\ exit_code = -1
    /\ stdout = <<>>
    /\ call_result = NoContentResult
    /\ network_payload = None
    /\ jsonl_blob = <<>>
    /\ expanded_output_path = NoPath
    /\ clock = 1

WaitModes == {"sleep", "networkidle", "load"}

\* the steps of NetworkCaptureClient.__aenter__, in order
ConnectSteps ==
    <<"sse_client", "playwright_session", "playwright_initialize",
      "stdio_client", "filesystem_session", "filesystem_initialize">>

IsContext(step) ==
    step \in {"sse_client", "playwright_session", "stdio_client", "filesystem_session"}

\* the connection a transport context opens
TransportOf(step) ==
    CASE step = "sse_client" -> "playwright"
      [] step = "stdio_client" -> "filesystem"

IsTransport(step) == step \in {"sse_client", "stdio_client"}

\* mutant: the storage connection is not waited for
StepIndex_browser_only(step) ==
    IF step = "playwright_initialize" THEN Len(ConnectSteps)
    ELSE CHOOSE i \in DOMAIN ConnectSteps : ConnectSteps[i] = step

\* the position of a step in __aenter__
StepIndex(step) ==
    CHOOSE i \in DOMAIN ConnectSteps : ConnectSteps[i] = step

\* positions of run_async inside the body of the `async with`
BodyPcs == {"capture", "navigating", "waiting_for", "sleeping", "fetching", "filter",
            "save_jsonl", "mkdir", "writing"}

\* what list_tools may answer: the tools listed, or an error
Listings(tool) ==
    { [ok |-> TRUE, tools |-> {"browser_navigate", tool}],
      [ok |-> TRUE, tools |-> {"browser_navigate"}],
      [ok |-> FALSE, tools |-> {}] }

\* mutant: a listing that succeeds counts as the tool being there
tool_is_available_any_listing(listing, tool) ==
    listing.ok

\* tool_is_available(client_session, tool_name), given what list_tools
\* answered: any(name == tool_name), or False from the except clause
tool_is_available(listing, tool) ==
    listing.ok /\ tool \in listing.tools

\* the record of one list_tools invocation: the tool asked about, whether the
\* listing succeeded, the names it listed, and what tool_is_available returned
ListCall(tool, listing) ==
    [tool |-> "list_tools", args |-> [for |-> tool], ok |-> listing.ok,
     listed |-> listing.tools, returned |-> tool_is_available(listing, tool)]

\* mutant: only the sleep mode keeps the wait local
use_wait_for_unless_sleep(available, wait_mode) ==
    available /\ wait_mode # "sleep"

\* capture_network_requests, wait step: browser_wait_for is called when the
\* tool is available and wait_mode == "networkidle"; every other branch sleeps
use_wait_for(available, wait_mode) ==
    available /\ wait_mode = "networkidle"

Init ==
    /\ RunIdle("start")
    /\ \E f \in FilterArgs, w \in WaitModes :
          cli_args = [wait_mode |-> w, filter_url |-> f.filter_url,
                      filter_method |-> f.filter_method,
                      status_min |-> f.status_min, status_max |-> f.status_max]
    /\ captured_requests = <<>>
    /\ filtered_requests = <<>>
    /\ tool_name = "none"
    /\ tool_args = NoArgs
    /\ retries = DefaultRetries
    /\ backoff_seconds = DefaultBackoff
    /\ attempt_index = 0
    /\ last_exception = NoExc
    /\ rt_pc = "idle"
    /\ rt_out = None
    /\ calls = <<>>
    /\ sleeps = <<>>
    /\ warnings = <<>>
    /\ fs_content = NoFile

retry_vars == <<tool_name, tool_args, retries, backoff_seconds, attempt_index,
                last_exception, rt_pc, rt_out>>
data_vars == <<call_result, network_payload, captured_requests, filtered_requests,
               jsonl_blob, expanded_output_path>>

\* __aenter__: self._exit_stack = AsyncExitStack()
Enter ==
    /\ pc = "start"
    /\ pc' = ConnectSteps[1]
    /\ exit_stack' = <<>>
    /\ UNCHANGED <<cli_args, clock, conn, closed, sessions, exc, exit_code, stdout,
                   calls, sleeps, warnings, fs_content>>
    /\ UNCHANGED <<retry_vars, data_vars>>

\* __aenter__: one enter_async_context(...) or initialize() succeeds
ConnectOk ==
    /\ pc \in Range(ConnectSteps)
    /\ exit_stack' = IF IsContext(pc) THEN Append(exit_stack, pc) ELSE exit_stack
    /\ conn' = IF IsTransport(pc) THEN [conn EXCEPT ![TransportOf(pc)] = "open"] ELSE conn
    /\ sessions' = IF pc \in {"playwright_session", "filesystem_session"}
                   THEN sessions \cup {pc} ELSE sessions
    /\ pc' = IF StepIndex(pc) < Len(ConnectSteps)
             THEN ConnectSteps[StepIndex(pc) + 1] ELSE "capture"
    /\ UNCHANGED <<cli_args, clock, closed, exc, exit_code, stdout, calls, sleeps, warnings, fs_content>>
    /\ UNCHANGED <<retry_vars, data_vars>>

\* __aenter__: one enter_async_context(...) or initialize() raises. The
\* exception leaves __aenter__, so the `async with` never calls __aexit__.
ConnectFail ==
    /\ pc \in Range(ConnectSteps)
    /\ exc' = Error("ConnectError")
    /\ pc' = "except"
    /\ UNCHANGED <<cli_args, clock, exit_stack, conn, closed, sessions, exit_code, stdout,
                   calls, sleeps, warnings, fs_content>>
    /\ UNCHANGED <<retry_vars, data_vars>>

\* KeyboardInterrupt is raised at an await of run_async (a connection step, a
\* remote call, a sleep): inside the `async with` body it passes through
\* __aexit__, inside __aenter__ it does not.
Interrupt ==
    /\ \/ pc \in Range(ConnectSteps)
       \/ pc \in BodyPcs /\ rt_pc \in {"call", "sleep"}
       \/ pc = "sleeping"
    /\ exc' = KeyboardInterrupt
    /\ pc' = IF pc \in BodyPcs THEN "aexit" ELSE "except"
    /\ rt_pc' = "idle"
    /\ UNCHANGED <<cli_args, clock, exit_stack, conn, closed, sessions, exit_code, stdout,
                   calls, sleeps, warnings, fs_content>>
    /\ UNCHANGED <<tool_name, tool_args, retries, backoff_seconds, attempt_index,
                   last_exception, rt_out>>
    /\ UNCHANGED data_vars

\* capture_network_requests: call_tool_with_retry(..., "browser_navigate", {"url": ...})
Navigate ==
    /\ pc = "capture"
    /\ BeginCall("browser_navigate", [url |-> U_target], DefaultRetries, DefaultBackoff)
    /\ pc' = "navigating"
    /\ UNCHANGED <<cli_args, clock, exit_stack, conn, closed, sessions, exc, exit_code, stdout,
                   calls, sleeps, warnings, fs_content>>
    /\ UNCHANGED data_vars

\* mutant: the RuntimeError is swallowed and the run goes on to the next step
ToolFailed_swallowed ==
    /\ pc \in {"navigating", "waiting_for", "fetching", "writing"}
    /\ rt_pc = "raised"
    /\ exc' = exc
    /\ pc' = IF pc \in {"navigating", "waiting_for"} THEN "sleeping" ELSE "aexit"
    /\ rt_pc' = "idle"
    /\ UNCHANGED <<cli_args, clock, exit_stack, conn, closed, sessions, exit_code, stdout,
                   calls, sleeps, warnings, fs_content>>
    /\ UNCHANGED <<tool_name, tool_args, retries, backoff_seconds, attempt_index,
                   last_exception, rt_out>>
    /\ UNCHANGED data_vars

\* the RuntimeError of a required operation leaves the body of the `async with`
ToolFailed ==
    /\ pc \in {"navigating", "waiting_for", "fetching", "writing"}
    /\ rt_pc = "raised"
    /\ exc' = rt_out
    /\ pc' = "aexit"
    /\ rt_pc' = "idle"
    /\ UNCHANGED <<cli_args, clock, exit_stack, conn, closed, sessions, exit_code, stdout,
                   calls, sleeps, warnings, fs_content>>
    /\ UNCHANGED <<tool_name, tool_args, retries, backoff_seconds, attempt_index,
                   last_exception, rt_out>>
    /\ UNCHANGED data_vars

\* capture_network_requests: the wait step, up to the local sleep or the call
\* of browser_wait_for
Wait ==
    /\ pc = "navigating"
    /\ rt_pc = "returned"
    /\ \E listing \in Listings("browser_wait_for") :
          /\ calls' = Append(calls, ListCall("browser_wait_for", listing))
          /\ warnings' = IF listing.ok THEN warnings
                         ELSE Append(warnings, Warning("tool_availability", "browser_wait_for"))
          /\ IF use_wait_for(tool_is_available(listing, "browser_wait_for"),
                             cli_args.wait_mode)
             THEN /\ BeginCall("browser_wait_for",
                               [state |-> "networkidle", timeout |-> WaitSeconds * 10],
                               DefaultRetries, DefaultBackoff)
                  /\ pc' = "waiting_for"
                  /\ sleeps' = sleeps
             ELSE /\ sleeps' = Append(sleeps, [why |-> "wait", seconds |-> WaitSeconds])
                  /\ pc' = "sleeping"
                  /\ UNCHANGED retry_vars
    /\ UNCHANGED <<cli_args, clock, exit_stack, conn, closed, sessions, exc, exit_code, stdout,
                   fs_content>>
    /\ UNCHANGED data_vars

\* capture_network_requests: call_tool_with_retry(..., "browser_network_requests", {})
Fetch ==
    /\ (pc = "waiting_for" /\ rt_pc = "returned") \/ pc = "sleeping"
    /\ BeginCall("browser_network_requests", NoArgs, DefaultRetries, DefaultBackoff)
    /\ pc' = "fetching"
    /\ UNCHANGED <<cli_args, clock, exit_stack, conn, closed, sessions, exc, exit_code, stdout,
                   calls, sleeps, warnings, fs_content>>
    /\ UNCHANGED data_vars

\* capture_network_requests: extract_tool_result_json and the list coercion
Normalize ==
    /\ pc = "fetching"
    /\ rt_pc = "returned"
    /\ call_result' = rt_out
    /\ network_payload' = extract_tool_result_json(rt_out)
    /\ captured_requests' = NormalizeToList(extract_tool_result_json(rt_out))
    /\ pc' = "filter"
    /\ UNCHANGED <<cli_args, clock, exit_stack, conn, closed, sessions, exc, exit_code, stdout,
                   calls, sleeps, warnings, fs_content, filtered_requests, jsonl_blob,
                   expanded_output_path>>
    /\ UNCHANGED retry_vars

\* run_async: at least one filter was requested on the command line
filters_requested(args) ==
    \/ PyTruthy(args.filter_url)
    \/ PyTruthy(args.filter_method)
    \/ args.status_min # Num(StatusMinDefault)
    \/ args.status_max # Num(StatusMaxDefault)

\* run_async, "Client-side filtering": filter_network_requests is called first,
\* then its result is kept or replaced by the captured list
requests_to_persist(captured, args) ==
    LET filtered == filter_network_requests(captured, args.filter_url, args.filter_method,
                                            args.status_min, args.status_max)
    IN  IF filtered.raised THEN filtered
        ELSE IF filters_requested(args) THEN filtered
        ELSE Returned(captured)

Filter ==
    /\ pc = "filter"
    /\ LET r == requests_to_persist(captured_requests, cli_args) IN
          IF r.raised
          THEN /\ exc' = r.exc
               /\ pc' = "aexit"
               /\ filtered_requests' = filtered_requests
          ELSE /\ exc' = exc
               /\ pc' = "save_jsonl"
               /\ filtered_requests' = r.value
    /\ UNCHANGED <<cli_args, clock, exit_stack, conn, closed, sessions, exit_code, stdout,
                   calls, sleeps, warnings, fs_content, call_result, network_payload,
                   captured_requests, jsonl_blob,
                   expanded_output_path>>
    /\ UNCHANGED retry_vars

\* mutant: the template is expanded again for write_file
write_args_expanded_again(request_records, expanded_path) ==
    [path |-> expand_output_path_template(OutTemplate, clock),
     content |-> serialize_to_jsonl(List(request_records))]

\* save_jsonl: the arguments of write_file,
\* {"path": expanded_output_path, "content": jsonl_blob}
write_args(request_records, expanded_path) ==
    [path |-> expanded_path,
     content |-> serialize_to_jsonl(List(request_records))]

\* a second passes while save_jsonl is in progress: between its awaits, during
\* a remote call or during a backoff delay
Tick ==
    /\ pc \in {"save_jsonl", "mkdir", "writing"}
    /\ clock <= MaxTicks
    /\ clock < Len(Timestamps)
    /\ clock' = clock + 1
    /\ UNCHANGED <<pc, cli_args, exit_stack, conn, closed, sessions, exc, exit_code, stdout,
                   calls, sleeps, warnings, fs_content>>
    /\ UNCHANGED <<retry_vars, data_vars>>

\* save_jsonl: expand the path, ask for create_directory, and call it when it
\* is available; otherwise go on to write_file
SaveStart ==
    /\ pc = "save_jsonl"
    /\ expanded_output_path' = expand_output_path_template(OutTemplate, clock)
    /\ \E listing \in Listings("create_directory") :
          /\ calls' = Append(calls, ListCall("create_directory", listing))
          /\ warnings' = IF listing.ok THEN warnings
                         ELSE Append(warnings, Warning("tool_availability", "create_directory"))
          /\ IF tool_is_available(listing, "create_directory")
             THEN /\ BeginCall("create_directory",
                               [path |-> dirname(expanded_output_path')],
                               DefaultRetries, DefaultBackoff)
                  /\ pc' = "mkdir"
                  /\ jsonl_blob' = jsonl_blob
             ELSE /\ jsonl_blob' = serialize_to_jsonl(List(filtered_requests))
                  /\ BeginCall("write_file",
                               write_args(filtered_requests, expanded_output_path'),
                               DefaultRetries, DefaultBackoff)
                  /\ pc' = "writing"
    /\ UNCHANGED <<cli_args, clock, exit_stack, conn, closed, sessions, exc, exit_code, stdout,
                   sleeps, fs_content>>
    /\ UNCHANGED <<call_result, network_payload, captured_requests, filtered_requests>>

\* mutant: the RuntimeError of create_directory is not caught
MkdirDone_fatal ==
    /\ pc = "mkdir"
    /\ rt_pc \in {"returned", "raised"}
    /\ IF rt_pc = "raised"
       THEN /\ exc' = rt_out
            /\ pc' = "aexit"
            /\ jsonl_blob' = jsonl_blob
            /\ rt_pc' = "idle"
            /\ UNCHANGED <<tool_name, tool_args, retries, backoff_seconds, attempt_index,
                           last_exception, rt_out>>
       ELSE /\ exc' = exc
            /\ jsonl_blob' = serialize_to_jsonl(List(filtered_requests))
            /\ BeginCall("write_file", write_args(filtered_requests, expanded_output_path),
                         DefaultRetries, DefaultBackoff)
            /\ pc' = "writing"
    /\ UNCHANGED <<cli_args, clock, exit_stack, conn, closed, sessions, exit_code, stdout,
                   calls, sleeps, warnings, fs_content>>
    /\ UNCHANGED <<call_result, network_payload, captured_requests, filtered_requests,
                   expanded_output_path>>

\* save_jsonl: create_directory returned, or its RuntimeError was caught and
\* logged; serialize and call write_file
MkdirDone ==
    /\ pc = "mkdir"
    /\ rt_pc \in {"returned", "raised"}
    /\ jsonl_blob' = serialize_to_jsonl(List(filtered_requests))
    /\ BeginCall("write_file", write_args(filtered_requests, expanded_output_path),
                 DefaultRetries, DefaultBackoff)
    /\ pc' = "writing"
    /\ warnings' = IF rt_pc = "raised"
                   THEN Append(warnings, Warning("create_directory_failed", "create_directory"))
                   ELSE warnings
    /\ UNCHANGED <<cli_args, clock, exit_stack, conn, closed, sessions, exc, exit_code, stdout,
                   calls, sleeps, fs_content>>
    /\ UNCHANGED <<call_result, network_payload, captured_requests, filtered_requests,
                   expanded_output_path>>

\* save_jsonl returns expanded_output_path; run_async prints it and reaches `return 0`
Saved ==
    /\ pc = "writing"
    /\ rt_pc = "returned"
    /\ stdout' = Append(stdout, expanded_output_path)
    /\ pc' = "aexit"
    /\ UNCHANGED <<cli_args, clock, exit_stack, conn, closed, sessions, exc, exit_code,
                   calls, sleeps, warnings, fs_content>>
    /\ UNCHANGED <<retry_vars, data_vars>>

\* mutant: a fatal error is reported as success
exit_code_for_lenient(e) ==
    IF e = NoExc THEN 0
    ELSE IF e.type = "KeyboardInterrupt" THEN 130
    ELSE 0

\* run_async: `return 0`, `except KeyboardInterrupt: return 130`,
\* `except Exception: return 1`
exit_code_for(e) ==
    IF e = NoExc THEN 0
    ELSE IF e.type = "KeyboardInterrupt" THEN 130
    ELSE 1

\* The `async with` is left: __aexit__, then the return or the except clause
\* of run_async. The exit stack exits every context, newest first, also when
\* one of them raises; an error raised by a context leaves __aexit__ in place
\* of the exception in flight, and the three assignments after the await are
\* skipped.
Aexit ==
    /\ pc = "aexit"
    /\ closed' = Reverse(exit_stack)
    /\ exit_stack' = <<>>
    /\ conn' = [c \in DOMAIN conn |-> IF conn[c] = "open" THEN "closed" ELSE conn[c]]
    /\ \E close_raises \in BOOLEAN :
          IF close_raises
          THEN /\ exc' = CloseError(exc)
               /\ sessions' = sessions
               /\ exit_code' = exit_code_for(CloseError(exc))
          ELSE /\ exc' = exc
               /\ sessions' = {}
               /\ exit_code' = exit_code_for(exc)
    /\ pc' = "done"
    /\ UNCHANGED <<cli_args, clock, stdout, calls, sleeps, warnings, fs_content>>
    /\ UNCHANGED <<retry_vars, data_vars>>

\* __aenter__ raised: the except clause of run_async, without __aexit__
Return ==
    /\ pc = "except"
    /\ exit_code' = exit_code_for(exc)
    /\ pc' = "done"
    /\ UNCHANGED <<cli_args, clock, exit_stack, conn, closed, sessions, exc, stdout,
                   calls, sleeps, warnings, fs_content>>
    /\ UNCHANGED <<retry_vars, data_vars>>

Next ==
    \/ Enter \/ ConnectOk \/ ConnectFail \/ Interrupt
    \/ Navigate \/ Wait \/ Fetch \/ Normalize \/ ToolFailed
    \/ Filter \/ SaveStart \/ MkdirDone \/ Saved
    \/ Aexit \/ Return
    \/ InvokeOk \/ InvokeFail \/ SleepDone

Spec == Init /\ [][Next]_vars

-----------------------------------------------------------------------------
(* The retry wrapper on its own: any tool outcome, any retries in 0..MaxRetries *)

NoArgsParsed ==
    [wait_mode |-> "sleep", filter_url |-> None, filter_method |-> None,
     status_min |-> None, status_max |-> None]

InitRetry ==
    /\ RunIdle("call_tool_with_retry")
    /\ cli_args = NoArgsParsed
    /\ captured_requests = <<>>
    /\ filtered_requests = <<>>
    /\ \E call \in { [tool |-> "browser_navigate", args |-> [url |-> U_target]],
                      [tool |-> "browser_network_requests", args |-> NoArgs],
                      [tool |-> "write_file", args |-> write_args(<<RecA>>, expand_output_path_template(OutTemplate, 1))] } :
          /\ tool_name = call.tool
          /\ tool_args = call.args
    /\ retries \in 0..MaxRetries
    /\ backoff_seconds \in {DefaultBackoff, 100}
    /\ attempt_index = 0
    /\ last_exception = NoExc
    /\ rt_pc = "call"
    /\ rt_out = None
    /\ calls = <<>>
    /\ sleeps = <<>>
    /\ warnings = <<>>
    /\ fs_content = NoFile

NextRetry == InvokeOk \/ InvokeFail \/ SleepDone

SpecRetry == InitRetry /\ [][NextRetry]_vars

-----------------------------------------------------------------------------
(* The record filter on its own: any list of records, any filter arguments *)

MaxLen == 2                     \* longest list of records filtered

BoundedSeq(S, n) == UNION {[1..k -> S] : k \in 0..n}

\* Request records: nested or flat fields, fields absent, null or falsy,
\* statuses numeric, numeric strings, not numeric, and at the range's edges
FilterRecords ==
    { RecA, RecB, RecC,
      NestedRecord(U_api_a, S_GET, Num(399)),
      NestedRecord(U_api_a, S_GET, Num(0)),
      Dict(<<KV(K_response, Dict(<<KV(K_status, Num(0))>>)), KV(K_status, Num(500))>>),
      FlatRecord(U_api_c, S_POST, Str(<<"4", "0", "4">>)),
      FlatRecord(U_web_b, S_get, Str(<<"a", "b", "c">>)),
      FlatRecord(U_web_b, S_GET, Str(<<>>)),
      FlatRecord(U_api_c, S_GET, List(<<Num(500)>>)),
      FlatRecord(U_api_c, S_GET, Num(0)),
      Dict(<<KV(K_url, Str(U_api_a))>>),
      Dict(<<KV(K_request, None), KV(K_response, None), KV(K_status, None)>>),
      Dict(<<KV(K_request, Dict(<<KV(K_method, Str(<<>>))>>)), KV(K_method, Str(S_POST))>>),
      Dict(<<KV(K_request, Dict(<<KV(K_method, Str(S_GET))>>)), KV(K_method, Str(S_POST))>>),
      Dict(<<>>) }

\* (url_regex, method_filter, status_min, status_max)
FilterCalls ==
    { [filter_url |-> None, filter_method |-> None, status_min |-> None, status_max |-> None],
      [filter_url |-> None, filter_method |-> None,
       status_min |-> Num(200), status_max |-> Num(399)],
      [filter_url |-> None, filter_method |-> None,
       status_min |-> Num(StatusMinDefault), status_max |-> Num(StatusMaxDefault)],
      [filter_url |-> None, filter_method |-> None, status_min |-> None, status_max |-> Num(399)],
      [filter_url |-> None, filter_method |-> None, status_min |-> Num(200), status_max |-> None],
      [filter_url |-> None, filter_method |-> Str(S_get), status_min |-> None, status_max |-> None],
      [filter_url |-> None, filter_method |-> Str(S_POST), status_min |-> None, status_max |-> None],
      [filter_url |-> Str(P_api), filter_method |-> None, status_min |-> None, status_max |-> None],
      [filter_url |-> Str(<<>>), filter_method |-> None, status_min |-> None, status_max |-> None],
      [filter_url |-> Str(P_api), filter_method |-> Str(S_get),
       status_min |-> Num(200), status_max |-> Num(399)] }

UnitIdle ==
    /\ tool_name = "none"
    /\ tool_args = NoArgs
    /\ retries = DefaultRetries
    /\ backoff_seconds = DefaultBackoff
    /\ attempt_index = 0
    /\ last_exception = NoExc
    /\ rt_pc = "idle"
    /\ rt_out = None
    /\ calls = <<>>
    /\ sleeps = <<>>
    /\ warnings = <<>>
    /\ fs_content = NoFile

InitFilter ==
    /\ RunIdle("filter_network_requests")
    /\ UnitIdle
    /\ \E f \in FilterCalls :
          cli_args = [wait_mode |-> "sleep", filter_url |-> f.filter_url,
                      filter_method |-> f.filter_method,
                      status_min |-> f.status_min, status_max |-> f.status_max]
    /\ captured_requests \in BoundedSeq(FilterRecords, MaxLen)
    /\ filtered_requests = <<>>

\* filtered_requests = filter_network_requests(captured_requests, ...)
ApplyFilter ==
    /\ pc = "filter_network_requests"
    /\ LET r == filter_network_requests(captured_requests, cli_args.filter_url,
                                        cli_args.filter_method, cli_args.status_min,
                                        cli_args.status_max)
       IN  /\ filtered_requests' = r.value
           /\ exc' = r.exc
           /\ pc' = IF r.raised THEN "raised" ELSE "filtered"
    /\ UNCHANGED <<cli_args, clock, exit_stack, conn, closed, sessions, exit_code, stdout,
                   calls, sleeps, warnings, fs_content, call_result, network_payload,
                   captured_requests, jsonl_blob,
                   expanded_output_path>>
    /\ UNCHANGED retry_vars

SpecFilter == InitFilter /\ [][ApplyFilter]_vars

-----------------------------------------------------------------------------
(* The result normalizer on its own: any short list of content entries *)

MaxEntries == 2                 \* most content entries in a tool result

ContentEntries ==
    { JsonEntry(RecA), JsonEntry(List(<<RecB>>)), BareEntry("json"),
      TextEntry(json_dumps(List(<<RecA, RecC>>))),
      TextEntry(<<"n", "u", "l", "l">>),
      TextEntry(<<"[", "{">>),
      TextEntry(<<"o", "k">>),
      BareEntry("text"), BareEntry("image"), BareEntry("none") }

InitExtract ==
    /\ pc = "extract_tool_result_json"
    /\ exit_stack = <<>>
    /\ conn = [c \in {"playwright", "filesystem"} |-> "unopened"]
    /\ closed = <<>>
    /\ sessions = {}
    /\ exc = NoExc
    /\ exit_code = -1
    /\ stdout = <<>>
    /\ network_payload = None
    /\ jsonl_blob = <<>>
    /\ expanded_output_path = NoPath
    /\ clock = 1
    /\ UnitIdle
    /\ cli_args = NoArgsParsed
    /\ captured_requests = <<>>
    /\ filtered_requests = <<>>
    /\ call_result \in {NoContentResult}
                       \cup {ToolResult(c) : c \in BoundedSeq(ContentEntries, MaxEntries)}

\* network_payload = extract_tool_result_json(call_result)
ApplyExtract ==
    /\ pc = "extract_tool_result_json"
    /\ network_payload' = extract_tool_result_json(call_result)
    /\ pc' = "extracted"
    /\ UNCHANGED <<cli_args, clock, exit_stack, conn, closed, sessions, exc, exit_code, stdout,
                   calls, sleeps, warnings, fs_content, call_result, captured_requests,
                   filtered_requests, jsonl_blob,
                   expanded_output_path>>
    /\ UNCHANGED retry_vars

SpecExtract == InitExtract /\ [][ApplyExtract]_vars

-----------------------------------------------------------------------------
(* The JSONL serializer on its own: any short list of mappings *)

S_quote == <<"a", QUOTE, "b">>
S_lines == <<"x", NEWLINE, "y", BACKSLASH, "n">>
S_accent == <<"c", "a", "f", "é">>
K_headers == <<"h", "e", "a", "d", "e", "r", "s">>

\* JSON-representable mappings: nested mappings and lists, null, negative
\* numbers, an empty mapping, strings holding a quote, a newline, a backslash
\* and a non-ASCII character, and a key holding a newline
SerialRecords ==
    { RecA, RecB, RecC,
      Dict(<<>>),
      Dict(<<KV(K_url, Str(S_quote)), KV(K_status, Num(-1))>>),
      Dict(<<KV(K_url, Str(S_lines))>>),
      Dict(<<KV(K_method, Str(S_accent)), KV(K_response, None)>>),
      Dict(<<KV(S_lines, List(<<>>))>>),
      Dict(<<KV(K_headers, List(<<Str(S_GET), Num(0), Dict(<<>>), List(<<None>>)>>))>>),
      Dict(<<KV(K_text, Str(<<>>)), KV(K_value, Str(<<"{", "}">>))>>) }

InitSerialize ==
    /\ RunIdle("serialize_to_jsonl")
    /\ UnitIdle
    /\ cli_args = NoArgsParsed
    /\ captured_requests = <<>>
    /\ filtered_requests \in BoundedSeq(SerialRecords, MaxLen)

\* jsonl_blob = serialize_to_jsonl(request_records)
ApplySerialize ==
    /\ pc = "serialize_to_jsonl"
    /\ jsonl_blob' = serialize_to_jsonl(List(filtered_requests))
    /\ pc' = "serialized"
    /\ UNCHANGED <<cli_args, clock, exit_stack, conn, closed, sessions, exc, exit_code, stdout,
                   calls, sleeps, warnings, fs_content, call_result, network_payload,
                   captured_requests, filtered_requests,
                   expanded_output_path>>
    /\ UNCHANGED retry_vars

SpecSerialize == InitSerialize /\ [][ApplySerialize]_vars

-----------------------------------------------------------------------------
(* Persist on its own: save_jsonl and the way out of the run, under a clock
   that advances. The clock is read nowhere else in the run. *)

\* the lists handed to save_jsonl
PersistInputs == {<<>>, <<RecA>>, <<RecC, RecA>>}

\* run_async is about to call save_jsonl: both connections are open, the
\* requests are captured, no filter was requested
InitPersist ==
    /\ pc = "save_jsonl"
    /\ exit_stack = SelectSeq(ConnectSteps, IsContext)
    /\ conn = [c \in {"playwright", "filesystem"} |-> "open"]
    /\ closed = <<>>
    /\ sessions = {"playwright_session", "filesystem_session"}
    /\ exc = NoExc
    /\ exit_code = -1
    /\ stdout = <<>>
    /\ jsonl_blob = <<>>
    /\ expanded_output_path = NoPath
    /\ clock = 1
    /\ UnitIdle
    /\ \E f \in FilterArgs, w \in WaitModes :
          /\ ~filters_requested(f)
          /\ cli_args = [wait_mode |-> w, filter_url |-> f.filter_url,
                         filter_method |-> f.filter_method,
                         status_min |-> f.status_min, status_max |-> f.status_max]
    /\ captured_requests \in PersistInputs
    /\ filtered_requests = captured_requests
    /\ network_payload = List(captured_requests)
    /\ call_result = ToolResult(<<JsonEntry(network_payload)>>)

NextPersist ==
    \/ SaveStart \/ MkdirDone \/ Saved \/ ToolFailed \/ Interrupt \/ Aexit
    \/ InvokeOk \/ InvokeFail \/ SleepDone
    \/ Tick

SpecPersist == InitPersist /\ [][NextPersist]_vars

-----------------------------------------------------------------------------
(* Properties *)

Conns == {"playwright", "filesystem"}

\* the invocations of a tool in the history, in order
CallsOf(tool) == SelectSeq(calls, LAMBDA c : c.tool = tool)

\* write_file was invoked retries + 1 times and failed every time
WriteFailedEveryAttempt ==
    /\ Len(CallsOf("write_file")) = DefaultRetries + 1
    /\ \A i \in DOMAIN calls : calls[i].tool = "write_file" => ~calls[i].ok

\* write_file succeeded: connect, navigate, wait, fetch and write all completed
WriteCompleted == \E i \in DOMAIN calls : calls[i].tool = "write_file" /\ calls[i].ok

\* the run was ended by a KeyboardInterrupt
Interrupted ==
    \/ exc.type = "KeyboardInterrupt"
    \/ exc.type = "CloseError" /\ exc.context.type = "KeyboardInterrupt"

RECURSIVE IsSubseq(_, _)
\* a is b with some elements left out, the others in their order
IsSubseq(a, b) ==
    IF Len(a) = 0 THEN TRUE
    ELSE IF Len(b) = 0 THEN FALSE
    ELSE IF Head(a) = Head(b) THEN IsSubseq(Tail(a), Tail(b))
    ELSE IsSubseq(a, Tail(b))

\* C1: when the run has returned its exit code, no remote connection that was
\* opened is still open, whatever the exit path.
C1_OpenedConnectionsClosed ==
    pc = "done" => \A c \in Conns : conn[c] # "open"

\* C2: the terminal error is raised after exactly retries + 1 invocations, all
\* failed, never after fewer, and its cause is the error of the last one; an
\* operation that fails retries + 1 times is not invoked again.
C2_TerminalAfterAllAttempts ==
    /\ Len(calls) <= retries + 1
    /\ rt_pc = "raised" <=> (Len(calls) = retries + 1 /\ \A i \in DOMAIN calls : ~calls[i].ok)
    /\ rt_pc = "raised" =>
          /\ rt_out.type = "RuntimeError"
          /\ rt_out.cause = ToolError(tool_name, retries + 1)
          /\ rt_out.cause = last_exception

C2_Witness ==
    rt_pc = "raised" /\ retries = 2 /\ Len(calls) = 3

\* C3: the run returns 0 exactly when connect, navigate, wait, fetch and write
\* all completed, prints the path only then, returns 130 when it was ended by
\* an interruption and 1 for every other failure.
C3_ExitCodes ==
    pc = "done" =>
        /\ exit_code = 0 <=> WriteCompleted
        /\ stdout # <<>> => exit_code = 0
        /\ Interrupted => exit_code = 130
        /\ (~WriteCompleted /\ ~Interrupted) => exit_code = 1

\* C4: with no filter configured the filter step is not observable: the
\* fetched list goes to persist as it is and the step raises nothing.
C4_UnconfiguredFilterUnobservable ==
    [][(pc = "filter" /\ ~filters_requested(cli_args))
         => (pc' = "save_jsonl" /\ filtered_requests' = captured_requests /\ exc' = NoExc)]_vars

\* the status of a record by nested-then-flat lookup: response.status when the
\* record has one, the top-level status otherwise
LookupStatus(request_record) ==
    IF /\ PyHas(request_record, K_response)
       /\ PyGet(request_record, K_response).t = "dict"
       /\ PyHas(PyGet(request_record, K_response), K_status)
    THEN PyGet(PyGet(request_record, K_response), K_status)
    ELSE PyGet(request_record, K_status)

OnlyStatusRange(args) ==
    /\ args.filter_url = None /\ args.filter_method = None
    /\ args.status_min # None /\ args.status_max # None

\* C5: with only a status range set, a record whose status is a number below
\* status_min or above status_max is dropped, and a record whose status is
\* absent or cannot be coerced to an integer is kept.
C5_StatusRange ==
    (pc = "filtered" /\ OnlyStatusRange(cli_args)) =>
        \A i \in DOMAIN captured_requests :
            LET r == captured_requests[i]
                st == LookupStatus(r)
            IN  /\ (st.t = "num" /\ (st.n < cli_args.status_min.n \/ st.n > cli_args.status_max.n))
                      => r \notin Range(filtered_requests)
                /\ (st = None \/ ~PyInt(st).ok) => r \in Range(filtered_requests)

\* C6: when write_file fails on every attempt the run returns 1, prints
\* nothing, and the storage service's file is as it was: no write_file
\* invocation succeeded and nothing else wrote it.
C6_FailedWriteLeavesNothing ==
    (pc = "done" /\ WriteFailedEveryAttempt) =>
        /\ exit_code = 1
        /\ stdout = <<>>
        /\ fs_content = NoFile
        /\ \A i \in DOMAIN calls :
              calls[i].ok => calls[i].tool \in {"browser_navigate", "browser_wait_for",
                                                "browser_network_requests", "list_tools",
                                                "create_directory"}

C6_Witness ==
    pc = "done" /\ WriteFailedEveryAttempt /\ exit_code = 1
    /\ \E i \in DOMAIN calls : calls[i].tool = "create_directory" /\ calls[i].ok

\* C7: the records handed to persist, and the lines written, are a
\* subsequence of the list obtained from the network-requests response.
C7_PersistedIsSubsequence ==
    /\ pc \in {"save_jsonl", "mkdir", "writing"} => IsSubseq(filtered_requests, captured_requests)
    /\ \A i \in DOMAIN calls :
          calls[i].tool = "write_file" =>
              /\ calls[i].args.content = serialize_to_jsonl(List(filtered_requests))
              /\ IsSubseq(filtered_requests, captured_requests)

C7_Witness ==
    /\ WriteCompleted
    /\ filters_requested(cli_args)
    /\ Len(filtered_requests) = 2

\* all four predicates of the filter are absent
NoPredicates(args) ==
    /\ args.filter_url = None /\ args.filter_method = None
    /\ args.status_min = None /\ args.status_max = None

\* C8: with no URL pattern, no method and no status bounds the filter returns
\* its input, equal in order and content.
C8_FilterIdentity ==
    (pc \in {"filtered", "raised"} /\ NoPredicates(cli_args)) =>
        (pc = "filtered" /\ filtered_requests = captured_requests)

C8_Witness ==
    /\ pc = "filtered" /\ NoPredicates(cli_args)
    /\ Len(captured_requests) = 2 /\ captured_requests[1] # captured_requests[2]
    /\ ~PyTruthy(method_value(captured_requests[1]))

IsUsable(entry) == entry.type \in {"json", "text"}

\* the index of the first entry tagged json or text, 0 when there is none
FirstUsable(content) ==
    IF \E i \in DOMAIN content : IsUsable(content[i])
    THEN CHOOSE i \in DOMAIN content :
            IsUsable(content[i]) /\ \A j \in 1..(i - 1) : ~IsUsable(content[j])
    ELSE 0

\* C9: the normalizer returns the value of the first entry tagged json or
\* text: the embedded value of a json entry; the parsed value of a text entry,
\* or {text: raw} when the text is not JSON; null when there is no such entry.
C9_FirstUsableEntry ==
    pc = "extracted" =>
        LET content == call_result.content
            i == FirstUsable(content)
            raw == IF content[i].has THEN content[i].text ELSE <<>>
        IN  IF call_result.content_none \/ i = 0 THEN network_payload = None
            ELSE IF content[i].type = "json"
                 THEN network_payload = (IF content[i].has THEN content[i].json ELSE None)
            ELSE IF json_loads(raw).ok THEN network_payload = json_loads(raw).v
            ELSE network_payload = Dict(<<KV(K_text, Str(raw))>>)

C9_Witness ==
    /\ pc = "extracted"
    /\ Len(call_result.content) = 2
    /\ call_result.content[1].type = "image"
    /\ network_payload = Dict(<<KV(K_text, Str(<<"[", "{">>))>>)

\* the run has fetched and normalized the network-requests payload
Fetched == pc \in {"filter", "save_jsonl", "mkdir", "writing"}

\* C10: capture_network_requests returns a list: empty for null, the list
\* itself, the inner list of a mapping whose `requests` is a list, a
\* one-element list holding any other mapping, and [{value: x}] for a scalar.
C10_ListCoercion ==
    Fetched =>
        LET p == network_payload IN
        CASE p.t = "null" -> captured_requests = <<>>
          [] p.t = "list" -> captured_requests = p.l
          [] p.t = "dict" ->
                IF PyHas(p, K_requests) /\ PyGet(p, K_requests).t = "list"
                THEN captured_requests = PyGet(p, K_requests).l
                ELSE captured_requests = <<p>>
          [] OTHER -> captured_requests = <<Dict(<<KV(K_value, p)>>)>>

C10_Witness ==
    /\ Fetched
    /\ network_payload.t = "dict"
    /\ PyHas(network_payload, K_requests)
    /\ captured_requests = <<RecC, RecA>>

\* the position of the k-th newline of a text (0 for k = 0)
NewlineAt(text, k) ==
    IF k = 0 THEN 0
    ELSE CHOOSE i \in DOMAIN text :
            /\ text[i] = NEWLINE
            /\ Cardinality({j \in 1..i : text[j] = NEWLINE}) = k

\* the newline-terminated lines of a text, without their newlines, and what
\* follows the last newline
SplitLines(text) ==
    LET n == Cardinality({i \in DOMAIN text : text[i] = NEWLINE}) IN
    [lines |-> [k \in 1..n |-> SubSeq(text, NewlineAt(text, k - 1) + 1,
                                       NewlineAt(text, k) - 1)],
     rest |-> SubSeq(text, NewlineAt(text, n) + 1, Len(text))]

\* C11: the serialized text is one newline-terminated line per record, in
\* input order and with nothing else in it, and parsing each line gives back
\* the record; the empty list gives the empty text.
C11_JsonlRoundTrip ==
    pc = "serialized" =>
        LET split == SplitLines(jsonl_blob) IN
        /\ split.rest = <<>>
        /\ Len(split.lines) = Len(filtered_requests)
        /\ \A i \in DOMAIN split.lines :
              /\ json_loads(split.lines[i]).ok
              /\ json_loads(split.lines[i]).v = filtered_requests[i]
        /\ filtered_requests = <<>> => jsonl_blob = <<>>

C11_Witness ==
    /\ pc = "serialized"
    /\ Len(filtered_requests) = 2
    /\ filtered_requests[1] = Dict(<<KV(K_url, Str(S_lines))>>)
    /\ filtered_requests[2] = RecA
    /\ Len(SplitLines(jsonl_blob).lines) = 2

\* both connections are opened and initialized and none has been closed
Connected ==
    /\ exit_stack = SelectSeq(ConnectSteps, IsContext)
    /\ pc \notin Range(ConnectSteps)
    /\ \A c \in Conns : conn[c] = "open"

\* the place of a remote operation in the sequence of the run
StepRank(c) ==
    CASE c.tool = "browser_navigate" -> 1
      [] c.tool = "list_tools" /\ c.args.for = "browser_wait_for" -> 2
      [] c.tool = "browser_wait_for" -> 3
      [] c.tool = "browser_network_requests" -> 4
      [] c.tool = "list_tools" /\ c.args.for = "create_directory" -> 5
      [] c.tool = "create_directory" -> 6
      [] c.tool = "write_file" -> 7

\* some invocation of the tool before position i succeeded
SucceededBefore(tool, i) == \E j \in 1..(i - 1) : calls[j].tool = tool /\ calls[j].ok

\* the operations invoked so far are in the order of the run, and each one
\* was invoked after the step before it had completed
StepsInOrder ==
    /\ \A i, j \in DOMAIN calls : i < j => StepRank(calls[i]) <= StepRank(calls[j])
    /\ \A i \in DOMAIN calls :
          /\ StepRank(calls[i]) > 1 => SucceededBefore("browser_navigate", i)
          /\ StepRank(calls[i]) > 3 =>
                \/ SucceededBefore("browser_wait_for", i)
                \/ \E k \in DOMAIN sleeps : sleeps[k].why = "wait"
          /\ StepRank(calls[i]) > 4 => SucceededBefore("browser_network_requests", i)
    /\ (\E k \in DOMAIN sleeps : sleeps[k].why = "wait") =>
          \E i \in DOMAIN calls : StepRank(calls[i]) = 2

\* C12: the remote operations occur in the order connect, browser_navigate,
\* wait, browser_network_requests, create_directory, write_file, disconnect:
\* no operation is invoked or delay started unless both connections are
\* initialized and open, none after a later step has begun, write_file only
\* after browser_network_requests has returned, and none after the close.
C12_StepOrder ==
    /\ []StepsInOrder
    /\ [][(calls' # calls \/ sleeps' # sleeps) => (Connected /\ closed = <<>>)]_vars
    /\ [][(Len(sleeps') > Len(sleeps) /\ sleeps'[Len(sleeps')].why = "wait")
            => (calls' # <<>> /\ StepRank(calls'[Len(calls')]) = 2)]_vars
    /\ [][closed # <<>> => (calls' = calls /\ sleeps' = sleeps)]_vars

C12_Witness ==
    /\ pc = "done"
    /\ WriteCompleted
    /\ closed = Reverse(SelectSeq(ConnectSteps, IsContext))
    /\ \E i \in DOMAIN calls : calls[i].tool = "create_directory"
    /\ \E i \in DOMAIN calls : calls[i].tool = "browser_wait_for" /\ ~calls[i].ok

\* the browser operations the run cannot do without
RequiredBrowserTools == {"browser_navigate", "browser_wait_for", "browser_network_requests"}

\* the tool was invoked retries + 1 times and failed every time
FailedEveryAttempt(tool) ==
    /\ Len(CallsOf(tool)) >= DefaultRetries + 1
    /\ \A i \in DOMAIN calls : calls[i].tool = tool => ~calls[i].ok

\* C13: once a required browser operation has failed on all of its attempts,
\* it is not invoked again, no other remote operation is invoked on either
\* service (no create_directory, no write_file, no listing), and the run
\* returns 1.
C13_RequiredFailureIsFatal ==
    \A tool \in RequiredBrowserTools :
        FailedEveryAttempt(tool) =>
            /\ Len(CallsOf(tool)) = DefaultRetries + 1
            /\ calls[Len(calls)].tool = tool
            /\ \A i \in DOMAIN calls : calls[i].tool \notin {"create_directory", "write_file"}
            /\ fs_content = NoFile
            /\ stdout = <<>>
            /\ pc \in {"navigating", "waiting_for", "fetching", "aexit", "done"}
            /\ pc = "done" => exit_code = 1

C13_Witness ==
    /\ pc = "done"
    /\ exit_code = 1
    /\ FailedEveryAttempt("browser_network_requests")
    /\ \E i \in DOMAIN calls : calls[i].tool = "browser_wait_for" /\ calls[i].ok

\* the capability queries made so far about a tool
QueriesFor(tool) ==
    SelectSeq(calls, LAMBDA c : c.tool = "list_tools" /\ c.args.for = tool)

\* the capability query reported the tool available
ReportedAvailable(query) == query.ok /\ query.args.for \in query.listed

\* the local delays of the wait step
WaitSleeps == SelectSeq(sleeps, LAMBDA sl : sl.why = "wait")

\* C14: browser_wait_for is invoked only when the capability query reported
\* it available and the wait mode is networkidle, and then with state
\* networkidle and the wait seconds in milliseconds and with no local delay;
\* when the query fails or does not list it, or the mode is sleep or unknown,
\* the wait is exactly one local delay of the wait seconds and
\* browser_wait_for is never invoked.
C14_WaitStep ==
    LET queries == QueriesFor("browser_wait_for") IN
    IF queries = <<>>
    THEN CallsOf("browser_wait_for") = <<>> /\ WaitSleeps = <<>>
    ELSE /\ Len(queries) = 1
         /\ IF ReportedAvailable(queries[1]) /\ cli_args.wait_mode = "networkidle"
            THEN /\ WaitSleeps = <<>>
                 /\ \A i \in DOMAIN calls :
                       calls[i].tool = "browser_wait_for" =>
                           calls[i].args = [state |-> "networkidle",
                                            timeout |-> WaitSeconds * 10]
                 /\ pc \in {"waiting_for", "aexit", "done"}
                       \/ \E i \in DOMAIN calls :
                             calls[i].tool = "browser_wait_for" /\ calls[i].ok
            ELSE /\ WaitSleeps = <<[why |-> "wait", seconds |-> WaitSeconds]>>
                 /\ CallsOf("browser_wait_for") = <<>>

C14_Witness ==
    /\ cli_args.wait_mode = "load"
    /\ QueriesFor("browser_wait_for") # <<>>
    /\ ReportedAvailable(QueriesFor("browser_wait_for")[1])
    /\ Len(WaitSleeps) = 1
    /\ pc = "fetching"

\* the wait step called browser_wait_for and it returned
C14_WitnessRemote ==
    /\ cli_args.wait_mode = "networkidle"
    /\ \E i \in DOMAIN calls : calls[i].tool = "browser_wait_for" /\ calls[i].ok
    /\ pc = "fetching"

\* the path save_jsonl writes to
ExpandedPath == expanded_output_path

\* the error the run ended with, under a close error if there was one
RunError == IF exc.type = "CloseError" THEN exc.context ELSE exc

\* C15: create_directory is invoked only when the capability query reported
\* it available; when it fails on all its attempts the failure is not
\* propagated and write_file is invoked afterwards with the expanded path and
\* the whole serialized content; persist returns the path exactly when
\* write_file succeeded and fails only with write_file's error.
C15_CreateDirectoryBestEffort ==
    /\ CallsOf("create_directory") # <<>> =>
          /\ Len(QueriesFor("create_directory")) = 1
          /\ ReportedAvailable(QueriesFor("create_directory")[1])
          /\ \A i \in DOMAIN calls :
                calls[i].tool = "create_directory" => calls[i].args.path = dirname(ExpandedPath)
    /\ \A i \in DOMAIN calls :
          calls[i].tool = "write_file" =>
              calls[i].args = [path |-> ExpandedPath,
                               content |-> serialize_to_jsonl(List(filtered_requests))]
    /\ (FailedEveryAttempt("create_directory") /\ pc \in {"aexit", "done"} /\ ~Interrupted) =>
          CallsOf("write_file") # <<>>
    /\ (QueriesFor("create_directory") # <<>> /\ pc \in {"aexit", "done"} /\ ~Interrupted) =>
          IF WriteCompleted
          THEN stdout = <<ExpandedPath>> /\ RunError = NoExc
          ELSE /\ stdout = <<>>
               /\ RunError = terminal_error("write_file",
                                            ToolError("write_file", DefaultRetries + 1))

C15_Witness ==
    /\ pc = "done"
    /\ FailedEveryAttempt("create_directory")
    /\ WriteCompleted
    /\ stdout = <<ExpandedPath>>
    /\ exit_code = 0

\* C16: disconnect closes the storage connection's contexts before the
\* browser connection's, and an error raised while closing is not propagated:
\* every connection is closed, the session handles are cleared, and the exit
\* code is that of the capture and persist outcome.
C16_CloseErrorsContained ==
    (pc = "done" /\ closed # <<>>) =>
        /\ closed = <<"filesystem_session", "stdio_client",
                      "playwright_session", "sse_client">>
        /\ \A c \in Conns : conn[c] = "closed"
        /\ sessions = {}
        /\ exc.type # "CloseError"
        /\ exit_code = exit_code_for(RunError)

\* C17: tool_is_available returns true exactly when the listing succeeded and
\* names the tool; a listing that raises makes it return false, is not
\* retried and raises nothing: the tool is never invoked and the run goes on
\* with the local delay, or with write_file.
C17_CapabilityQuery ==
    /\ \A i \in DOMAIN calls :
          calls[i].tool = "list_tools" =>
              /\ calls[i].returned <=> (calls[i].ok /\ calls[i].args.for \in calls[i].listed)
              /\ ~calls[i].ok => ~calls[i].returned
              /\ ~calls[i].returned => CallsOf(calls[i].args.for) = <<>>
    /\ \A tool \in {"browser_wait_for", "create_directory"} : Len(QueriesFor(tool)) <= 1
    /\ (calls # <<>> /\ calls[Len(calls)].tool = "list_tools" /\ ~calls[Len(calls)].ok) =>
          IF Interrupted THEN pc \in {"aexit", "done"}
          ELSE /\ RunError = NoExc
               /\ pc \in {"sleeping", "fetching", "writing"}

C17_Witness ==
    /\ pc = "done"
    /\ exit_code = 0
    /\ \E i \in DOMAIN calls :
          calls[i].tool = "list_tools" /\ calls[i].args.for = "create_directory" /\ ~calls[i].ok
    /\ \E i \in DOMAIN calls :
          calls[i].tool = "list_tools" /\ calls[i].args.for = "browser_wait_for" /\ ~calls[i].ok
    /\ WriteCompleted

\* the number of invocations so far that raised
FailedCalls == Cardinality({i \in DOMAIN calls : ~calls[i].ok})

\* C18: with base delay B and R retries, the sleeps so far are one per failed
\* invocation k <= R, of B * 2^(k-1) each and in that order, with one warning
\* logged for each; there is none before the first invocation, none after a
\* success and none after failure R + 1.
C18_BackoffSchedule ==
    LET n == IF FailedCalls <= retries THEN FailedCalls ELSE retries IN
    /\ sleeps = [k \in 1..n |-> [why |-> "backoff", seconds |-> backoff_seconds * 2^(k - 1)]]
    /\ warnings = [k \in 1..n |->
                      RetryWarning(tool_name, k, retries, backoff_seconds * 2^(k - 1))]
    /\ rt_pc = "sleep" => (FailedCalls = Len(calls) /\ FailedCalls <= retries)
    /\ \A i \in DOMAIN calls : calls[i].ok => i = Len(calls)

C18_Witness ==
    /\ rt_pc = "raised"
    /\ retries = 3
    /\ backoff_seconds = DefaultBackoff
    /\ Len(calls) = 4
    /\ Len(sleeps) = 3
    /\ sleeps[3].seconds = 300
    /\ Len(warnings) = 3

\* a value that names a method: a string that is not empty
NamesMethod(v) == v.t = "str" /\ v.s # <<>>

\* the method of a record: request.method when the record has one, the
\* top-level method otherwise
LookupMethod(request_record) ==
    LET nested == PyGet(request_record, K_request) IN
    IF nested.t = "dict" /\ NamesMethod(PyGet(nested, K_method))
    THEN PyGet(nested, K_method)
    ELSE PyGet(request_record, K_method)

\* two strings are equal up to the case of their letters
EqualIgnoringCase(a, b) ==
    /\ Len(a) = Len(b)
    /\ \A i \in DOMAIN a : UpperChar(a[i]) = UpperChar(b[i])

OnlyMethodFilter(args) ==
    /\ PyTruthy(args.filter_method)
    /\ args.filter_url = None /\ args.status_min = None /\ args.status_max = None

\* C19: with only a method filter set, the records kept are exactly those
\* whose method, request.method first and the flat method second, is present
\* and equals the filter up to letter case, in their order; a record with no
\* method is dropped.
C19_MethodFilter ==
    (pc \in {"filtered", "raised"} /\ OnlyMethodFilter(cli_args)) =>
        /\ pc = "filtered"
        /\ filtered_requests =
              SelectSeq(captured_requests,
                        LAMBDA r : /\ NamesMethod(LookupMethod(r))
                                   /\ EqualIgnoringCase(LookupMethod(r).s,
                                                        cli_args.filter_method.s))

C19_Witness ==
    /\ pc = "filtered"
    /\ OnlyMethodFilter(cli_args)
    /\ cli_args.filter_method = Str(S_get)
    /\ captured_requests = <<Dict(<<KV(K_url, Str(U_api_a))>>), RecA>>
    /\ filtered_requests = <<RecA>>

\* C20: the wrapper returns the result of the first invocation that succeeds
\* and invokes nothing after it: when invocation k succeeds after k - 1
\* failures, k <= retries + 1, there are exactly k invocations, the wrapper
\* has returned the k-th result and raises no terminal error.
C20_FirstSuccessReturned ==
    /\ \A k \in DOMAIN calls :
          calls[k].ok =>
              /\ k = Len(calls)
              /\ k <= retries + 1
              /\ \A i \in 1..(k - 1) : ~calls[i].ok
              /\ rt_pc = "returned"
              /\ rt_out = calls[k].result
    /\ rt_pc = "returned" => (calls # <<>> /\ calls[Len(calls)].ok)
    /\ rt_pc = "raised" => \A i \in DOMAIN calls : ~calls[i].ok

C20_Witness ==
    /\ rt_pc = "returned"
    /\ tool_name = "browser_network_requests"
    /\ retries = 2
    /\ Len(calls) = 3
    /\ rt_out = ToolResult(<<TextEntry(json_dumps(List(<<RecA, RecB>>)))>>)

\* the output path template expanded when the clock shows t
ExpansionAt(t) == expand_output_path_template(OutTemplate, t)

\* C21: persist expands the path template once: there is one expansion, made
\* at some moment of the run, that is the path of every write_file attempt,
\* the path written on the storage service, the path printed, and the path
\* whose parent directory every create_directory attempt asks for, also when
\* the clock has moved on to another timestamp since.
C21_SingleExpansion ==
    QueriesFor("create_directory") # <<>> =>
        \E t \in 1..clock :
            LET p == ExpansionAt(t) IN
            /\ \A i \in DOMAIN calls :
                  /\ calls[i].tool = "write_file" => calls[i].args.path = p
                  /\ calls[i].tool = "create_directory" => calls[i].args.path = dirname(p)
            /\ stdout \in {<<>>, <<p>>}
            /\ fs_content.exists => fs_content.path = p

C21_Witness ==
    /\ pc = "done"
    /\ clock = 3
    /\ stdout = <<ExpansionAt(1)>>
    /\ Len(CallsOf("write_file")) = 3
    /\ Len(CallsOf("create_directory")) = 2
    /\ fs_content.path = ExpansionAt(1)
    /\ ExpansionAt(1) # ExpansionAt(2)

====
